---- MODULE Spec2Model ----
(***************************************************************************)
(* Model of src/generate/xrg/types.py: classification of clang type        *)
(* handles (parse_type and the variant constructors) and the per-surface   *)
(* rendering of the resulting descriptors (name, used_ctypes).             *)
(*                                                                         *)
(* Python strings are modelled as sequences of one-character strings, so   *)
(* that prefix tests, regular-expression matches, slicing and formatting   *)
(* are computed character by character.  Python sets are objects on a heap *)
(* (used_ctypes returns a reference to a set that callers may mutate).     *)
(***************************************************************************)
EXTENDS Integers, Sequences, FiniteSets, TLC

VARIABLES clang_type, descriptor, pc, result, heap, kept

vars == <<clang_type, descriptor, pc, result, heap, kept>>

(***************************************************************************)
(* String literals of the source.                                          *)
(***************************************************************************)
s_c_int == <<"c", "_", "i", "n", "t">>  \* "c_int"
s_c_long == <<"c", "_", "l", "o", "n", "g">>  \* "c_long"
s_c_longlong == <<"c", "_", "l", "o", "n", "g", "l", "o", "n", "g">>  \* "c_longlong"
s_c_short == <<"c", "_", "s", "h", "o", "r", "t">>  \* "c_short"
s_c_uint == <<"c", "_", "u", "i", "n", "t">>  \* "c_uint"
s_c_ulong == <<"c", "_", "u", "l", "o", "n", "g">>  \* "c_ulong"
s_c_ulonglong == <<"c", "_", "u", "l", "o", "n", "g", "l", "o", "n", "g">>  \* "c_ulonglong"
s_c_ushort == <<"c", "_", "u", "s", "h", "o", "r", "t">>  \* "c_ushort"
s_c_char == <<"c", "_", "c", "h", "a", "r">>  \* "c_char"
s_str == <<"s", "t", "r">>  \* "str"
s_c_float == <<"c", "_", "f", "l", "o", "a", "t">>  \* "c_float"
s_float == <<"f", "l", "o", "a", "t">>  \* "float"
s_c_char_p == <<"c", "_", "c", "h", "a", "r", "_", "p">>  \* "c_char_p"
s_c_void_p == <<"c", "_", "v", "o", "i", "d", "_", "p">>  \* "c_void_p"
s_None == <<"N", "o", "n", "e">>  \* "None"
s_c_uchar == <<"c", "_", "u", "c", "h", "a", "r">>  \* "c_uchar"
s_int == <<"i", "n", "t">>  \* "int"
s_void == <<"v", "o", "i", "d">>  \* "void"
s_CFUNCTYPE == <<"C", "F", "U", "N", "C", "T", "Y", "P", "E">>  \* "CFUNCTYPE"
s_POINTER == <<"P", "O", "I", "N", "T", "E", "R">>  \* "POINTER"
s_Xr == <<"X", "r">>  \* "Xr"
s_c_ == <<"c", "_">>  \* "c_"
s_const == <<"c", "o", "n", "s", "t">>  \* "const"
s_volatile == <<"v", "o", "l", "a", "t", "i", "l", "e">>  \* "volatile"
s_const_sp == <<"c", "o", "n", "s", "t", " ">>  \* "const "
s_uint == <<"u", "i", "n", "t">>  \* "uint"
s__t == <<"_", "t">>  \* "_t"
s_8 == <<"8">>  \* "8"
s_16 == <<"1", "6">>  \* "16"
s_32 == <<"3", "2">>  \* "32"
s_64 == <<"6", "4">>  \* "64"
s_comma_sp == <<",", " ">>  \* ", "
s_sp_star_sp == <<" ", "*", " ">>  \* " * "
s_lparen == <<"(">>  \* "("
s_rparen == <<")">>  \* ")"
s_lbracket == <<"[">>  \* "["
s_rbracket == <<"]">>  \* "]"
s_empty == <<>>  \* ""

(***************************************************************************)
(* Spellings libclang gives to the builtin kinds, and its punctuation.     *)
(***************************************************************************)
s_char == <<"c", "h", "a", "r">>  \* "char"
s_unsigned_char == <<"u", "n", "s", "i", "g", "n", "e", "d", " ", "c", "h", "a", "r">>  \* "unsigned char"
s_long == <<"l", "o", "n", "g">>  \* "long"
s_long_long == <<"l", "o", "n", "g", " ", "l", "o", "n", "g">>  \* "long long"
s_short == <<"s", "h", "o", "r", "t">>  \* "short"
s_unsigned_int == <<"u", "n", "s", "i", "g", "n", "e", "d", " ", "i", "n", "t">>  \* "unsigned int"
s_unsigned_long == <<"u", "n", "s", "i", "g", "n", "e", "d", " ", "l", "o", "n", "g">>  \* "unsigned long"
s_unsigned_long_long == <<"u", "n", "s", "i", "g", "n", "e", "d", " ", "l", "o", "n", "g", " ", "l", "o", "n", "g">>  \* "unsigned long long"
s_unsigned_short == <<"u", "n", "s", "i", "g", "n", "e", "d", " ", "s", "h", "o", "r", "t">>  \* "unsigned short"
s_double == <<"d", "o", "u", "b", "l", "e">>  \* "double"
s_signed_char == <<"s", "i", "g", "n", "e", "d", " ", "c", "h", "a", "r">>  \* "signed char"
s_struct_sp == <<"s", "t", "r", "u", "c", "t", " ">>  \* "struct "
s_enum_sp == <<"e", "n", "u", "m", " ">>  \* "enum "
s_sp == <<" ">>  \* " "
s_star == <<"*">>  \* "*"

(***************************************************************************)
(* Names declared by the translation units handed to the classifier.       *)
(***************************************************************************)
s_uint32_t == <<"u", "i", "n", "t", "3", "2", "_", "t">>  \* "uint32_t"
s_int8_t == <<"i", "n", "t", "8", "_", "t">>  \* "int8_t"
s_uint64_t == <<"u", "i", "n", "t", "6", "4", "_", "t">>  \* "uint64_t"
s_int16_t == <<"i", "n", "t", "1", "6", "_", "t">>  \* "int16_t"
s_uint8_tag == <<"u", "i", "n", "t", "8", "_", "t", "a", "g">>  \* "uint8_tag"
s_uint128_t == <<"u", "i", "n", "t", "1", "2", "8", "_", "t">>  \* "uint128_t"
s_XrFlags64 == <<"X", "r", "F", "l", "a", "g", "s", "6", "4">>  \* "XrFlags64"
s_XrResult == <<"X", "r", "R", "e", "s", "u", "l", "t">>  \* "XrResult"
s_XrInstance == <<"X", "r", "I", "n", "s", "t", "a", "n", "c", "e">>  \* "XrInstance"
s_XrInstance_T == <<"X", "r", "I", "n", "s", "t", "a", "n", "c", "e", "_", "T">>  \* "XrInstance_T"
s_XrXrPair == <<"X", "r", "X", "r", "P", "a", "i", "r">>  \* "XrXrPair"
s_Xrc_int == <<"X", "r", "c", "_", "i", "n", "t">>  \* "Xrc_int"
s_size_t == <<"s", "i", "z", "e", "_", "t">>  \* "size_t"
s_c_wchar == <<"c", "_", "w", "c", "h", "a", "r">>  \* "c_wchar"
s_XrReal == <<"X", "r", "R", "e", "a", "l">>  \* "XrReal"
s_PFN_xrVoidFunction == <<"P", "F", "N", "_", "x", "r", "V", "o", "i", "d", "F", "u", "n", "c", "t", "i", "o", "n">>  \* "PFN_xrVoidFunction"
s_timespec == <<"t", "i", "m", "e", "s", "p", "e", "c">>  \* "timespec"
s_XrPosef == <<"X", "r", "P", "o", "s", "e", "f">>  \* "XrPosef"

(***************************************************************************)
(* Python string operations used by the source.                            *)
(***************************************************************************)
\* str.startswith
StartsWith(s, p) == Len(s) >= Len(p) /\ SubSeq(s, 1, Len(p)) = p

\* s[n:]
Drop(s, n) == SubSeq(s, n + 1, Len(s))

DigitChars == <<"0", "1", "2", "3", "4", "5", "6", "7", "8", "9">>

\* str(n) for a non-negative integer, as an f-string field formats it
RECURSIVE Decimal(_)
Decimal(n) ==
    IF n < 10 THEN <<DigitChars[n + 1]>>
    ELSE Decimal(n \div 10) \o <<DigitChars[(n % 10) + 1]>>

\* sep.join(parts)
RECURSIVE Join(_, _)
Join(parts, sep) ==
    IF parts = <<>> THEN <<>>
    ELSE IF Len(parts) = 1 THEN parts[1]
    ELSE parts[1] \o sep \o Join(Tail(parts), sep)

Letters ==
    {"a", "b", "c", "d", "e", "f", "g", "h", "i", "j", "k", "l", "m",
     "n", "o", "p", "q", "r", "s", "t", "u", "v", "w", "x", "y", "z",
     "A", "B", "C", "D", "E", "F", "G", "H", "I", "J", "K", "L", "M",
     "N", "O", "P", "Q", "R", "S", "T", "U", "V", "W", "X", "Y", "Z"}

Digits == {"0", "1", "2", "3", "4", "5", "6", "7", "8", "9"}

\* the class \w of the re module
WordChars == Letters \cup Digits \cup {"_"}

\* the class \s of the re module, as far as spellings contain it
SpaceChars == {" ", "\t"}

(***************************************************************************)
(* The three surfaces.                                                     *)
(***************************************************************************)
Api == {"C", "CTYPES", "PYTHON"}

(***************************************************************************)
(* clang.cindex.Type handles.  A handle is a record carrying its kind and  *)
(* what its accessors return: get_pointee(), element_type, element_count,  *)
(* get_named_type(), get_declaration().spelling (decl),                    *)
(* get_declaration().underlying_typedef_type (underlying), get_result()    *)
(* and argument_types().  The spelling is what libclang prints for the     *)
(* type.                                                                   *)
(***************************************************************************)
Builtin(k, q) == [kind |-> k, qual |-> q]

Record(d) == [kind |-> "RECORD", decl |-> d]

Enum(d) == [kind |-> "ENUM", decl |-> d]

Typedef(n, q, u) == [kind |-> "TYPEDEF", name |-> n, qual |-> q, underlying |-> u]

Elaborated(q, t) == [kind |-> "ELABORATED", qual |-> q, named |-> t]

Pointer(t) == [kind |-> "POINTER", pointee |-> t]

ConstantArray(t, n) ==
    [kind |-> "CONSTANTARRAY", element_type |-> t, element_count |-> n]

FunctionProto(r, a) == [kind |-> "FUNCTIONPROTO", result |-> r, args |-> a]

BuiltinSpelling(k) ==
    CASE k = "CHAR_S" -> s_char
      [] k = "UCHAR" -> s_unsigned_char
      [] k = "SCHAR" -> s_signed_char
      [] k = "FLOAT" -> s_float
      [] k = "DOUBLE" -> s_double
      [] k = "INT" -> s_int
      [] k = "LONG" -> s_long
      [] k = "LONGLONG" -> s_long_long
      [] k = "SHORT" -> s_short
      [] k = "UINT" -> s_unsigned_int
      [] k = "ULONG" -> s_unsigned_long
      [] k = "ULONGLONG" -> s_unsigned_long_long
      [] k = "USHORT" -> s_unsigned_short
      [] k = "VOID" -> s_void

Qualified(q, s) == IF q = s_empty THEN s ELSE q \o s_sp \o s

\* a pointer to an array or to a function is printed as (*)
NeedsParen(t) == t.kind \in {"CONSTANTARRAY", "FUNCTIONPROTO"}

RECURSIVE Before(_), After(_), spelling(_)

\* the part of a type's spelling before the declarator
Before(h) ==
    CASE h.kind = "POINTER" ->
           LET b == Before(h.pointee)
           IN  b \o (IF b[Len(b)] = "*" THEN <<>> ELSE s_sp)
                 \o (IF NeedsParen(h.pointee) THEN s_lparen ELSE <<>>)
                 \o s_star
      [] h.kind = "CONSTANTARRAY" -> Before(h.element_type)
      [] h.kind = "FUNCTIONPROTO" -> Before(h.result)
      [] h.kind = "TYPEDEF" -> Qualified(h.qual, h.name)
      [] h.kind = "ELABORATED" -> Qualified(h.qual, spelling(h.named))
      [] h.kind = "RECORD" -> s_struct_sp \o h.decl
      [] h.kind = "ENUM" -> s_enum_sp \o h.decl
      [] OTHER -> Qualified(h.qual, BuiltinSpelling(h.kind))

\* the part of a type's spelling after the declarator
After(h) ==
    CASE h.kind = "POINTER" ->
           (IF NeedsParen(h.pointee) THEN s_rparen ELSE <<>>) \o After(h.pointee)
      [] h.kind = "CONSTANTARRAY" ->
           s_lbracket \o Decimal(h.element_count) \o s_rbracket
             \o After(h.element_type)
      [] h.kind = "FUNCTIONPROTO" ->
           s_lparen
             \o (IF h.args = <<>> THEN s_void
                 ELSE Join([i \in 1..Len(h.args) |-> spelling(h.args[i])],
                           s_comma_sp))
             \o s_rparen \o After(h.result)
      [] OTHER -> <<>>

\* clang_type.spelling
spelling(h) == Before(h) \o After(h)

(***************************************************************************)
(* Optional[str]: None is the empty tuple, a string s is <<s>>.            *)
(***************************************************************************)
None == <<>>

Some(s) == <<s>>

(***************************************************************************)
(* Naming transforms.                                                      *)
(***************************************************************************)
\* index after the match of \b(?:const|volatile)\s+ that starts at i, 0 if none
RECURSIVE SkipSpaces(_, _)
SkipSpaces(s, j) ==
    IF j <= Len(s) /\ s[j] \in SpaceChars THEN SkipSpaces(s, j + 1) ELSE j

QualifierMatchEnd(s, i) ==
    LET boundary == i = 1 \/ s[i - 1] \notin WordChars
        words == {w \in {s_const, s_volatile} :
                    /\ i + Len(w) - 1 <= Len(s)
                    /\ SubSeq(s, i, i + Len(w) - 1) = w}
    IN  IF boundary /\ words # {}
        THEN LET w == CHOOSE w \in words : TRUE
                 j == i + Len(w)
             IN  IF j <= Len(s) /\ s[j] \in SpaceChars THEN SkipSpaces(s, j) ELSE 0
        ELSE 0

\* re.sub(r"\b(?:const|volatile)\s+", "", s) scanning from position i
RECURSIVE SubQualifiers(_, _)
SubQualifiers(s, i) ==
    IF i > Len(s) THEN <<>>
    ELSE LET m == QualifierMatchEnd(s, i)
         IN  IF m > 0 THEN SubQualifiers(s, m)
             ELSE <<s[i]>> \o SubQualifiers(s, i + 1)

capi_type_name(c_type_name) == SubQualifiers(c_type_name, 1)

\* a variant of py_type_name that strips every leading "Xr", not only one
RECURSIVE py_type_name_strip_all(_)
py_type_name_strip_all(capi_type) ==
    IF StartsWith(capi_type, s_Xr) THEN py_type_name_strip_all(Drop(capi_type, 2))
    ELSE capi_type

py_type_name(capi_type) ==
    IF StartsWith(capi_type, s_Xr) THEN Drop(capi_type, 2) ELSE capi_type

(***************************************************************************)
(* IntegerType's name resolution.                                          *)
(***************************************************************************)
IntegerKinds ==
    {"INT", "LONG", "LONGLONG", "SHORT", "UINT", "ULONG", "ULONGLONG", "USHORT"}

CLANG_NAMES_FOR_KINDS ==
    [k \in IntegerKinds |->
        CASE k = "INT" -> s_c_int
          [] k = "LONG" -> s_c_long
          [] k = "LONGLONG" -> s_c_longlong
          [] k = "SHORT" -> s_c_short
          [] k = "UINT" -> s_c_uint
          [] k = "ULONG" -> s_c_ulong
          [] k = "ULONGLONG" -> s_c_ulonglong
          [] k = "USHORT" -> s_c_ushort]

\* the alternation 8|16|32|64, in the order the pattern tries it
AliasWidths == <<s_8, s_16, s_32, s_64>>

\* (u?int(?:8|16|32|64))_t matched at the start of t: the group, or None
MatchAliasStem(t) ==
    LET stems == IF StartsWith(t, <<"u">>) THEN <<s_uint, s_int>> ELSE <<s_int>>
        hits == {p \in (1..Len(stems)) \X (1..Len(AliasWidths)) :
                    StartsWith(t, stems[p[1]] \o AliasWidths[p[2]] \o s__t)}
    IN  IF hits = {} THEN None
        ELSE LET p == CHOOSE p \in hits :
                        \A q \in hits : p[1] < q[1] \/ (p[1] = q[1] /\ p[2] <= q[2])
             IN  Some(stems[p[1]] \o AliasWidths[p[2]])

\* re.match(r"(?:const )?(u?int(?:8|16|32|64))_t", c_name): anchored at the
\* start of c_name only
clang_name_for_c_name(c_name) ==
    LET withConst == IF StartsWith(c_name, s_const_sp)
                     THEN MatchAliasStem(Drop(c_name, Len(s_const_sp)))
                     ELSE None
        m == IF withConst # None THEN withConst ELSE MatchAliasStem(c_name)
    IN  IF m # None THEN Some(s_c_ \o m[1]) ELSE None

clang_name_for_type(h) ==
    IF h.kind \in DOMAIN CLANG_NAMES_FOR_KINDS THEN Some(CLANG_NAMES_FOR_KINDS[h.kind])
    ELSE IF h.kind = "TYPEDEF" THEN clang_name_for_c_name(spelling(h))
    ELSE None

(***************************************************************************)
(* Descriptors.  A constructor or parse_type either returns a descriptor   *)
(* or raises; a raised exception is the record Raise(exception, site), and *)
(* every caller that does not catch it passes it on.                       *)
(***************************************************************************)
Raise(e, site) == [variant |-> "Raised", exception |-> e, at |-> site]

IsRaised(d) == d.variant = "Raised"

RECURSIVE parse_type(_), ArrayType(_), FunctionPointerType(_), PointerType(_)
RECURSIVE TypedefType(_), parse_pointer(_), parse_typedef(_)

ArrayType(h) ==
    IF h.kind # "CONSTANTARRAY" THEN Raise("AssertionError", "ArrayType")
    ELSE LET e == parse_type(h.element_type)
         IN  IF IsRaised(e) THEN e
             ELSE [variant |-> "ArrayType", clang_type |-> h,
                   element_type |-> e, count |-> h.element_count]

EnumType(h) ==
    IF h.kind # "ENUM" THEN Raise("AssertionError", "EnumType")
    ELSE [variant |-> "EnumType", clang_type |-> h]

FunctionPointerType(h) ==
    IF h.kind # "POINTER" THEN Raise("AssertionError", "FunctionPointerType")
    ELSE IF h.pointee.kind # "FUNCTIONPROTO"
    THEN Raise("AssertionError", "FunctionPointerType")
    ELSE LET pt == h.pointee
             r == parse_type(pt.result)
             a == [i \in 1..Len(pt.args) |-> parse_type(pt.args[i])]
             bad == {i \in 1..Len(pt.args) : IsRaised(a[i])}
         IN  IF IsRaised(r) THEN r
             ELSE IF bad # {} THEN a[CHOOSE i \in bad : \A j \in bad : i <= j]
             ELSE [variant |-> "FunctionPointerType", clang_type |-> h,
                   result_type |-> r, arg_types |-> a]

IntegerType(h) ==
    LET n == clang_name_for_type(h)
    IN  IF n = None THEN Raise("ValueError", "IntegerType")
        ELSE [variant |-> "IntegerType", clang_type |-> h, _name |-> n[1]]

PointerType(h) ==
    IF h.kind # "POINTER" THEN Raise("AssertionError", "PointerType")
    ELSE IF h.pointee.kind = "VOID" THEN Raise("AssertionError", "PointerType")
    ELSE IF h.pointee.kind = "FUNCTIONPROTO"
    THEN Raise("AssertionError", "PointerType")
    ELSE LET p == parse_type(h.pointee)
         IN  IF IsRaised(p) THEN p
             ELSE [variant |-> "PointerType", clang_type |-> h, pointee |-> p]

PrimitiveCTypesType(h, ctypes_type, python_type) ==
    [variant |-> "PrimitiveCTypesType", clang_type |-> h,
     _name |-> ctypes_type, py_name |-> python_type]

RecordType(h) ==
    IF h.kind # "RECORD" THEN Raise("AssertionError", "RecordType")
    ELSE LET capi == capi_type_name(h.decl)
         IN  [variant |-> "RecordType", clang_type |-> h,
              _capi_name |-> capi, _py_name |-> py_type_name(capi)]

TypedefType(h) ==
    IF h.kind # "TYPEDEF" THEN Raise("AssertionError", "TypedefType")
    ELSE LET capi == capi_type_name(spelling(h))
             u == parse_type(h.underlying)
         IN  IF IsRaised(u) THEN u
             ELSE [variant |-> "TypedefType", clang_type |-> h,
                   _capi_name |-> capi, _py_name |-> py_type_name(capi),
                   underlying_type |-> u]

VoidType(h) ==
    IF h.kind # "VOID" THEN Raise("AssertionError", "VoidType")
    ELSE [variant |-> "VoidType", clang_type |-> h]

(***************************************************************************)
(* parse_type.                                                             *)
(***************************************************************************)
\* a variant of the POINTER branch without the case for a void pointee
parse_pointer_no_void_case(h) ==
    LET pt == h.pointee
    IN  IF pt.kind = "CHAR_S" THEN PrimitiveCTypesType(h, s_c_char_p, s_str)
        ELSE IF pt.kind = "FUNCTIONPROTO" THEN FunctionPointerType(h)
        ELSE PointerType(h)

\* the POINTER branch
parse_pointer(h) ==
    LET pt == h.pointee
    IN  IF pt.kind = "CHAR_S" THEN PrimitiveCTypesType(h, s_c_char_p, s_str)
        ELSE IF pt.kind = "FUNCTIONPROTO" THEN FunctionPointerType(h)
        ELSE IF pt.kind = "VOID" THEN PrimitiveCTypesType(h, s_c_void_p, s_None)
        ELSE PointerType(h)

\* the TYPEDEF branch: try IntegerType, on ValueError fall back to TypedefType
parse_typedef(h) ==
    LET i == IntegerType(h)
    IN  IF IsRaised(i) /\ i.exception = "ValueError" THEN TypedefType(h) ELSE i

\* a variant of the final statement that coerces an unknown kind
unsupported_kind_fallback(h) == PrimitiveCTypesType(h, s_c_void_p, s_None)

\* the final assert False
unsupported_kind(h) == Raise("AssertionError", "parse_type")

parse_type(h) ==
    IF h.kind = "CHAR_S" THEN PrimitiveCTypesType(h, s_c_char, s_str)
    ELSE IF h.kind = "CONSTANTARRAY" THEN ArrayType(h)
    ELSE IF h.kind = "ELABORATED" THEN parse_type(h.named)
    ELSE IF h.kind = "ENUM" THEN EnumType(h)
    ELSE IF h.kind = "FLOAT" THEN PrimitiveCTypesType(h, s_c_float, s_float)
    ELSE IF h.kind \in DOMAIN CLANG_NAMES_FOR_KINDS THEN IntegerType(h)
    ELSE IF h.kind = "POINTER" THEN parse_pointer(h)
    ELSE IF h.kind = "RECORD" THEN RecordType(h)
    ELSE IF h.kind = "TYPEDEF" THEN parse_typedef(h)
    ELSE IF h.kind = "UCHAR" THEN PrimitiveCTypesType(h, s_c_uchar, s_str)
    ELSE IF h.kind = "VOID" THEN VoidType(h)
    ELSE unsupported_kind(h)

(***************************************************************************)
(* name(api), per variant.                                                 *)
(***************************************************************************)
RECURSIVE name(_, _)

ArrayName(d, api) ==
    IF api = "C"
    THEN name(d.element_type, api) \o s_lbracket \o Decimal(d.count) \o s_rbracket
    ELSE s_lparen \o name(d.element_type, api) \o s_sp_star_sp
           \o Decimal(d.count) \o s_rparen

EnumName(d, api) ==
    IF api = "C" THEN spelling(d.clang_type)
    ELSE IF api = "CTYPES" THEN s_c_int
    ELSE s_c_int

FunctionPointerName(d, api) ==
    IF api = "C" THEN spelling(d.clang_type)
    ELSE LET ts == <<d.result_type>> \o d.arg_types
             arg_string == Join([i \in 1..Len(ts) |-> name(ts[i], "CTYPES")],
                                s_comma_sp)
         IN  s_CFUNCTYPE \o s_lparen \o arg_string \o s_rparen

IntegerName(d, api) ==
    IF api = "C" THEN spelling(d.clang_type)
    ELSE IF api = "PYTHON" THEN s_int
    ELSE d._name

PointerName(d, api) ==
    IF api = "C" THEN spelling(d.clang_type)
    ELSE s_POINTER \o s_lparen \o name(d.pointee, api) \o s_rparen

PrimitiveName(d, api) ==
    IF api = "C" THEN spelling(d.clang_type)
    ELSE IF api = "PYTHON" THEN d.py_name
    ELSE d._name

RecordName(d, api) ==
    IF api = "C" THEN spelling(d.clang_type) ELSE d._py_name

TypedefName(d, api) ==
    IF api = "C" THEN spelling(d.clang_type) ELSE d._py_name

VoidName(d, api) == IF api = "C" THEN s_void ELSE s_None

name(d, api) ==
    CASE d.variant = "ArrayType" -> ArrayName(d, api)
      [] d.variant = "EnumType" -> EnumName(d, api)
      [] d.variant = "FunctionPointerType" -> FunctionPointerName(d, api)
      [] d.variant = "IntegerType" -> IntegerName(d, api)
      [] d.variant = "PointerType" -> PointerName(d, api)
      [] d.variant = "PrimitiveCTypesType" -> PrimitiveName(d, api)
      [] d.variant = "RecordType" -> RecordName(d, api)
      [] d.variant = "TypedefType" -> TypedefName(d, api)
      [] d.variant = "VoidType" -> VoidName(d, api)

(***************************************************************************)
(* used_ctypes(api), per variant.  A Python set is an object: the heap     *)
(* maps references (positive integers) to set values, a set display        *)
(* allocates, add and update change the object in place, and a method      *)
(* returns a reference.  Each operator takes the heap and returns the new  *)
(* heap and the returned reference.                                        *)
(***************************************************************************)
EmptyHeap == <<>>

\* a set display or set(): a new object
NewSet(hp, s) ==
    LET r == CHOOSE n \in 1..(Cardinality(DOMAIN hp) + 1) :
                /\ n \notin DOMAIN hp
                /\ \A m \in 1..(n - 1) : m \in DOMAIN hp
    IN  [heap |-> [x \in DOMAIN hp \cup {r} |-> IF x = r THEN s ELSE hp[x]],
         ref |-> r]

\* target.update(other) and target.add(e): target changes in place
SetUpdate(hp, target, s) == [hp EXCEPT ![target] = hp[target] \cup s]

RECURSIVE used_ctypes_on(_, _, _)

ArrayUsedCtypes(hp, d, api) == used_ctypes_on(hp, d.element_type, api)

\* a variant of EnumType.used_ctypes that hands out one shared set object
\* instead of building a new one on every call
EnumUsedCtypes_shared(hp, d, api) ==
    LET same == {x \in DOMAIN hp : hp[x] = {s_c_int}}
    IN  IF same # {} THEN [heap |-> hp, ref |-> CHOOSE x \in same : TRUE]
        ELSE NewSet(hp, {s_c_int})

EnumUsedCtypes(hp, d, api) == NewSet(hp, {s_c_int})

\* for a in self.arg_types[i:]: result.update(a.used_ctypes(api))
RECURSIVE UpdateFromArgs(_, _, _, _, _)
UpdateFromArgs(hp, target, args, api, i) ==
    IF i > Len(args) THEN hp
    ELSE LET a == used_ctypes_on(hp, args[i], api)
         IN  UpdateFromArgs(SetUpdate(a.heap, target, a.heap[a.ref]),
                            target, args, api, i + 1)

FunctionPointerUsedCtypes(hp, d, api) ==
    LET new == NewSet(hp, {s_CFUNCTYPE})
        r1 == used_ctypes_on(new.heap, d.result_type, api)
        h1 == SetUpdate(r1.heap, new.ref, r1.heap[r1.ref])
        r2 == used_ctypes_on(h1, d.result_type, api)
        h2 == SetUpdate(r2.heap, new.ref, r2.heap[r2.ref])
    IN  [heap |-> UpdateFromArgs(h2, new.ref, d.arg_types, api, 1), ref |-> new.ref]

IntegerUsedCtypes(hp, d, api) ==
    IF api = "CTYPES" THEN NewSet(hp, {d._name}) ELSE NewSet(hp, {})

\* a variant of PointerType.used_ctypes that forgets result.add("POINTER")
PointerUsedCtypes_no_add(hp, d, api) == used_ctypes_on(hp, d.pointee, api)

PointerUsedCtypes(hp, d, api) ==
    LET r == used_ctypes_on(hp, d.pointee, api)
    IN  [heap |-> SetUpdate(r.heap, r.ref, {s_POINTER}), ref |-> r.ref]

PrimitiveUsedCtypes(hp, d, api) == NewSet(hp, {d._name})

RecordUsedCtypes(hp, d, api) == NewSet(hp, {})

\* a variant of TypedefType.used_ctypes without the case for the C surface
TypedefUsedCtypes_no_raw_case(hp, d, api) ==
    IF StartsWith(d._capi_name, s_c_) THEN NewSet(hp, {d._capi_name})
    ELSE NewSet(hp, {})

TypedefUsedCtypes(hp, d, api) ==
    IF api = "C" THEN NewSet(hp, {})
    ELSE IF StartsWith(d._capi_name, s_c_) THEN NewSet(hp, {d._capi_name})
    ELSE NewSet(hp, {})

VoidUsedCtypes(hp, d, api) == NewSet(hp, {})

used_ctypes_on(hp, d, api) ==
    CASE d.variant = "ArrayType" -> ArrayUsedCtypes(hp, d, api)
      [] d.variant = "EnumType" -> EnumUsedCtypes(hp, d, api)
      [] d.variant = "FunctionPointerType" -> FunctionPointerUsedCtypes(hp, d, api)
      [] d.variant = "IntegerType" -> IntegerUsedCtypes(hp, d, api)
      [] d.variant = "PointerType" -> PointerUsedCtypes(hp, d, api)
      [] d.variant = "PrimitiveCTypesType" -> PrimitiveUsedCtypes(hp, d, api)
      [] d.variant = "RecordType" -> RecordUsedCtypes(hp, d, api)
      [] d.variant = "TypedefType" -> TypedefUsedCtypes(hp, d, api)
      [] d.variant = "VoidType" -> VoidUsedCtypes(hp, d, api)

\* the value of the set d.used_ctypes(api) returns when no other set exists
used_ctypes(d, api) ==
    LET r == used_ctypes_on(EmptyHeap, d, api) IN r.heap[r.ref]

(***************************************************************************)
(* The nodes of a descriptor tree: a path is the sequence of child         *)
(* positions from the root (element_type, pointee and underlying_type are  *)
(* child 1; result_type is child 1 and arg_types[i] child i + 1).          *)
(***************************************************************************)
Children(d) ==
    CASE d.variant = "ArrayType" -> <<d.element_type>>
      [] d.variant = "FunctionPointerType" -> <<d.result_type>> \o d.arg_types
      [] d.variant = "PointerType" -> <<d.pointee>>
      [] d.variant = "TypedefType" -> <<d.underlying_type>>
      [] OTHER -> <<>>

RECURSIVE Paths(_)
Paths(d) ==
    {<<>>} \cup UNION {{<<i>> \o p : p \in Paths(Children(d)[i])} :
                         i \in 1..Len(Children(d))}

RECURSIVE NodeAt(_, _)
NodeAt(d, p) == IF p = <<>> THEN d ELSE NodeAt(Children(d)[Head(p)], Tail(p))

(***************************************************************************)
(* The handles the classifier is called with: the types of a translation   *)
(* unit's declarations, and pointers, constant arrays and function         *)
(* pointers built over them.                                               *)
(***************************************************************************)
MaxDepth == 2

MaxArgs == 1

ArrayCounts == {4, 16}

IntType == Builtin("INT", s_empty)

UnqualifiedBuiltins ==
    {Builtin(k, s_empty) :
        k \in IntegerKinds \cup {"CHAR_S", "UCHAR", "FLOAT", "VOID", "DOUBLE"}}

QualifiedBuiltins == {Builtin("CHAR_S", s_const), Builtin("INT", s_const)}

Records ==
    {Record(d) : d \in {s_XrInstance, s_XrPosef, s_XrXrPair, s_timespec, s_Xr}}

XrResultEnum == Enum(s_XrResult)

\* typedef declarations: the name and the underlying type
TypedefDecls ==
    {<<s_uint32_t, Builtin("UINT", s_empty)>>,
     <<s_int8_t, Builtin("SCHAR", s_empty)>>,
     <<s_uint64_t, Builtin("ULONG", s_empty)>>,
     <<s_int16_t, Builtin("SHORT", s_empty)>>,
     <<s_uint8_tag, Builtin("UCHAR", s_empty)>>,
     <<s_uint128_t, Builtin("UINT128", s_empty)>>,
     <<s_XrFlags64, Typedef(s_uint64_t, s_empty, Builtin("ULONG", s_empty))>>,
     <<s_XrResult, Elaborated(s_empty, XrResultEnum)>>,
     <<s_XrPosef, Elaborated(s_empty, Record(s_XrPosef))>>,
     <<s_XrInstance, Pointer(Elaborated(s_empty, Record(s_XrInstance_T)))>>,
     <<s_Xrc_int, IntType>>,
     <<s_size_t, Builtin("ULONG", s_empty)>>,
     <<s_c_wchar, IntType>>,
     <<s_XrReal, Builtin("DOUBLE", s_empty)>>,
     <<s_PFN_xrVoidFunction, Pointer(FunctionProto(Builtin("VOID", s_empty), <<>>))>>}

Typedefs == {Typedef(t[1], s_empty, t[2]) : t \in TypedefDecls}

QualifiedTypedefs ==
    {Typedef(t[1], s_const, t[2]) :
        t \in {t \in TypedefDecls : t[1] \in {s_uint32_t, s_XrFlags64, s_c_wchar}}}
    \cup {Typedef(t[1], s_volatile, t[2]) :
            t \in {t \in TypedefDecls : t[1] \in {s_uint32_t}}}

\* a type written with its keyword or, const-qualified, as a wrapper
Elaborateds ==
    {Elaborated(q, t) :
        q \in {s_empty, s_const},
        t \in {Record(s_XrPosef), XrResultEnum}
              \cup {t \in Typedefs : t.name \in {s_XrFlags64, s_uint32_t}}}

BaseHandles ==
    UnqualifiedBuiltins \cup QualifiedBuiltins \cup Records \cup {XrResultEnum}
      \cup Typedefs \cup QualifiedTypedefs \cup Elaborateds

SeqsUpTo(S, n) == UNION {[1..k -> S] : k \in 0..n}

FunctionPointers ==
    {Pointer(FunctionProto(r, a)) :
        r \in {Builtin("VOID", s_empty)} \cup {t \in Typedefs : t.name = s_XrResult},
        a \in SeqsUpTo({IntType, Pointer(Builtin("CHAR_S", s_const)),
                        Builtin("DOUBLE", s_empty)}, MaxArgs)}

RECURSIVE HandlesUpTo(_)
HandlesUpTo(n) ==
    IF n = 0 THEN BaseHandles
    ELSE LET prev == HandlesUpTo(n - 1)
         IN  prev \cup FunctionPointers
               \cup {Pointer(t) : t \in prev}
               \cup {ConstantArray(t, c) :
                       t \in {t \in prev : t.kind # "VOID"}, c \in ArrayCounts}

Handles == HandlesUpTo(MaxDepth)

\* the handles on which the history of render calls is followed
RECURSIVE CallHandlesUpTo(_)
CallHandlesUpTo(n) ==
    IF n = 0
    THEN {IntType, XrResultEnum, Record(s_XrPosef)}
           \cup {t \in Typedefs : t.name = s_c_wchar}
    ELSE LET prev == CallHandlesUpTo(n - 1)
         IN  prev \cup {Pointer(t) : t \in prev}
               \cup {ConstantArray(t, 4) : t \in prev}
               \cup {Pointer(FunctionProto(XrResultEnum, <<IntType>>))}

CallHandles == CallHandlesUpTo(MaxDepth)

(***************************************************************************)
(* The state machine.  A caller classifies a handle (ParseType) and then   *)
(* calls name and used_ctypes on nodes of the descriptor tree.  result is  *)
(* what the last call returned; kept is an earlier return value the caller *)
(* still holds.  A set that the caller no longer holds is collected.       *)
(***************************************************************************)
NoDescriptor == [variant |-> "None"]

NoCall == [op |-> "none"]

\* the sets still referenced once the caller holds only refs
Collect(hp, refs) == [x \in DOMAIN hp \cap refs |-> hp[x]]

KeptRefs == IF kept.op = "used_ctypes" THEN {kept.ref} ELSE {}

Init ==
    /\ clang_type \in Handles
    /\ descriptor = NoDescriptor
    /\ pc = "start"
    /\ result = NoCall
    /\ heap = EmptyHeap
    /\ kept = NoCall

InitCalls ==
    /\ clang_type \in CallHandles
    /\ descriptor = NoDescriptor
    /\ pc = "start"
    /\ result = NoCall
    /\ heap = EmptyHeap
    /\ kept = NoCall

ParseType ==
    /\ pc = "start"
    /\ descriptor' = parse_type(clang_type)
    /\ pc' = IF IsRaised(descriptor') THEN "raised" ELSE "parsed"
    /\ UNCHANGED <<clang_type, result, heap, kept>>

CallName(p, api) ==
    /\ pc = "parsed"
    /\ result' = [op |-> "name", node |-> p, api |-> api,
                  value |-> name(NodeAt(descriptor, p), api)]
    /\ heap' = Collect(heap, KeptRefs)
    /\ UNCHANGED <<clang_type, descriptor, pc, kept>>

CallUsedCtypes(p, api) ==
    /\ pc = "parsed"
    /\ LET r == used_ctypes_on(Collect(heap, KeptRefs), NodeAt(descriptor, p), api)
       IN  /\ result' = [op |-> "used_ctypes", node |-> p, api |-> api,
                         ref |-> r.ref, value |-> r.heap[r.ref]]
           /\ heap' = Collect(r.heap, KeptRefs \cup {r.ref})
    /\ UNCHANGED <<clang_type, descriptor, pc, kept>>

\* the caller holds on to what the last call returned
Keep ==
    /\ result.op # "none"
    /\ kept.op = "none"
    /\ kept' = result @@ [tree |-> descriptor]
    /\ UNCHANGED <<clang_type, descriptor, pc, result, heap>>

Next ==
    \/ ParseType
    \/ \E p \in Paths(descriptor), api \in Api : CallName(p, api)
    \/ \E p \in Paths(descriptor), api \in Api : CallUsedCtypes(p, api)

NextCalls ==
    \/ Next
    \/ Keep

Spec == Init /\ [][Next]_vars

SpecCalls == InitCalls /\ [][NextCalls]_vars

(***************************************************************************)
(* Properties.  CalledNode is the descriptor the last render call was made *)
(* on.                                                                     *)
(***************************************************************************)
CalledNode == NodeAt(descriptor, result.node)

Variants ==
    {"ArrayType", "EnumType", "FunctionPointerType", "IntegerType", "PointerType",
     "PrimitiveCTypesType", "RecordType", "TypedefType", "VoidType"}

\* C1: on the C surface used_ctypes returns the empty set, for every
\* descriptor parse_type returns and every node of it.
C1_RawDependenciesEmpty ==
    (result.op = "used_ctypes" /\ result.api = "C") => result.value = {}

\* C2: parse_type returns a descriptor of one of the nine variants whose
\* name on the C surface is the spelling of the handle it was called with.
C2_RawNameIsSpelling ==
    /\ pc = "parsed" => descriptor.variant \in Variants
    /\ (result.op = "name" /\ result.api = "C" /\ result.node = <<>>)
         => result.value = spelling(clang_type)

\* the union of the interop-surface dependencies of a sequence of descriptors
InteropDependencies(ds) == UNION {used_ctypes(ds[i], "CTYPES") : i \in 1..Len(ds)}

\* C3: used_ctypes of a FunctionPointerType is CFUNCTYPE together with the
\* interop-surface dependencies of the result type and of every argument
\* type, whichever surface was asked for (stated here for the interop and
\* high-level surfaces, the two that name renders with CFUNCTYPE).
C3_FunctionPointerDependencies ==
    (/\ result.op = "used_ctypes"
     /\ result.api # "C"
     /\ CalledNode.variant = "FunctionPointerType")
      => result.value =
           {s_CFUNCTYPE}
             \cup InteropDependencies(<<CalledNode.result_type>> \o CalledNode.arg_types)

\* the typedef spelling is its qualifier, if any, followed by the name n
IsUnqualifiedNameOf(n, h) == spelling(h) = Qualified(h.qual, n)

\* C4, as the specification states it: a TypedefType whose low-level name n
\* has the "Xr" prefix has no dependencies, any other contributes {n}
\* outside the C surface.
C4_TypedefDependenciesByXrPrefix ==
    (result.op = "used_ctypes" /\ CalledNode.variant = "TypedefType")
      => LET n == CalledNode._capi_name
         IN  /\ IsUnqualifiedNameOf(n, CalledNode.clang_type)
             /\ result.value =
                  IF result.api = "C" THEN {}
                  ELSE IF StartsWith(n, s_Xr) THEN {}
                  ELSE {n}

\* C4, amended: a TypedefType whose low-level name n has the "c_" prefix
\* contributes {n} outside the C surface; any other name, and the C
\* surface, give the empty set.
C4_TypedefDependenciesByCtypesPrefix ==
    (result.op = "used_ctypes" /\ CalledNode.variant = "TypedefType")
      => LET n == CalledNode._capi_name
         IN  /\ IsUnqualifiedNameOf(n, CalledNode.clang_type)
             /\ result.value =
                  IF result.api = "C" THEN {}
                  ELSE IF StartsWith(n, s_c_) THEN {n}
                  ELSE {}

\* a typedef that is neither project-local nor named like a ctypes symbol
\* has been asked for its interop dependencies, and a ctypes-named one for
\* its C-surface dependencies
C4_Witness ==
    /\ result.op = "used_ctypes"
    /\ result.node = <<>>
    /\ descriptor.variant = "TypedefType"
    /\ descriptor._capi_name = s_size_t
    /\ result.api = "CTYPES"
    /\ result.value = {}

\* the spellings the pattern (const )?(u?int(8|16|32|64))_t describes
AliasStems == {s_int, s_uint}

AliasSpellings ==
    {q \o stem \o AliasWidths[w] \o s__t :
        q \in {s_empty, s_const_sp}, stem \in AliasStems, w \in 1..Len(AliasWidths)}

\* the stem of an alias spelling: the spelling without "const " and "_t"
AliasStemOf(s) ==
    LET t == IF StartsWith(s, s_const_sp) THEN Drop(s, Len(s_const_sp)) ELSE s
    IN  SubSeq(t, 1, Len(t) - Len(s__t))

\* C5: a TYPEDEF handle becomes an IntegerType exactly when its spelling is
\* one of the fixed-width aliases, optionally const-qualified; then the
\* interop name is "c_" and the alias stem, and the C name is the spelling.
C5_AliasTypedefIsInteger ==
    (pc # "start" /\ clang_type.kind = "TYPEDEF")
      => /\ descriptor.variant = "IntegerType" <=> spelling(clang_type) \in AliasSpellings
         /\ descriptor.variant = "IntegerType"
              => /\ descriptor._name = s_c_ \o AliasStemOf(spelling(clang_type))
                 /\ used_ctypes(descriptor, "CTYPES") = {descriptor._name}
                 /\ name(descriptor, "C") = spelling(clang_type)

\* the handles parse_type is called on while it classifies h
RECURSIVE Reached(_)
Reached(h) ==
    {h} \cup
    CASE h.kind = "CONSTANTARRAY" -> Reached(h.element_type)
      [] h.kind = "ELABORATED" -> Reached(h.named)
      [] h.kind = "POINTER" ->
           IF h.pointee.kind \in {"CHAR_S", "VOID"} THEN {}
           ELSE IF h.pointee.kind = "FUNCTIONPROTO"
           THEN Reached(h.pointee.result)
                  \cup UNION {Reached(h.pointee.args[i]) : i \in 1..Len(h.pointee.args)}
           ELSE Reached(h.pointee)
      [] h.kind = "TYPEDEF" ->
           IF clang_name_for_c_name(spelling(h)) # None THEN {}
           ELSE Reached(h.underlying)
      [] OTHER -> {}

\* the kinds parse_type has a rule for
DispatchedKinds ==
    IntegerKinds \cup {"CHAR_S", "CONSTANTARRAY", "ELABORATED", "ENUM", "FLOAT",
                       "POINTER", "RECORD", "TYPEDEF", "UCHAR", "VOID"}

\* a descriptor tree with every child in place
RECURSIVE IsComplete(_)
IsComplete(d) ==
    /\ d.variant \in Variants
    /\ d.variant = "FunctionPointerType"
         => Len(d.arg_types) = Len(d.clang_type.pointee.args)
    /\ \A i \in 1..Len(Children(d)) : IsComplete(Children(d)[i])

\* C6: parse_type raises the unsupported-kind defect exactly when the handle
\* or a handle reached during construction has a kind without a rule, and
\* otherwise returns a complete descriptor tree; nothing on the way turns
\* the defect into a descriptor.
C6_DefectPropagates ==
    pc # "start"
      => IF \E g \in Reached(clang_type) : g.kind \notin DispatchedKinds
         THEN pc = "raised" /\ descriptor = Raise("AssertionError", "parse_type")
         ELSE pc = "parsed" /\ IsComplete(descriptor)

\* a pointer to a typedef that is no alias and whose underlying type has no
\* rule: the ValueError was caught, and the defect of the underlying type
\* came through the typedef branch and the pointer
C6_Witness ==
    /\ pc = "raised"
    /\ clang_type.kind = "POINTER"
    /\ clang_type.pointee.kind = "TYPEDEF"
    /\ clang_type.pointee.name = s_XrReal

\* C7: a RecordType renders on the interop and the high-level surface as
\* one string: the declaration spelling without qualifier words and without
\* one leading "Xr"; it has no dependencies on any surface.
C7_RecordName ==
    (result.op # "none" /\ CalledNode.variant = "RecordType")
      => LET s == CalledNode.clang_type.decl
             q == capi_type_name(s)
         IN  /\ result.op = "used_ctypes" => result.value = {}
             /\ (\A i \in 1..Len(s) : s[i] \notin SpaceChars) => q = s
             /\ (result.op = "name" /\ result.api # "C")
                  => /\ result.value = name(CalledNode, "CTYPES")
                     /\ result.value = name(CalledNode, "PYTHON")
                     /\ IF StartsWith(q, s_Xr) THEN s_Xr \o result.value = q
                        ELSE result.value = q

\* the record declared XrXrPair has been rendered on the high-level surface
C7_Witness ==
    /\ result.op = "name"
    /\ result.api = "PYTHON"
    /\ CalledNode.variant = "RecordType"
    /\ CalledNode.clang_type.decl = s_XrXrPair
    /\ result.value = Drop(s_XrXrPair, 2)

\* the structural precondition of the constructor that built d
PreconditionHolds(d) ==
    LET k == d.clang_type.kind
    IN  CASE d.variant = "ArrayType" -> k = "CONSTANTARRAY"
          [] d.variant = "EnumType" -> k = "ENUM"
          [] d.variant = "FunctionPointerType" ->
               k = "POINTER" /\ d.clang_type.pointee.kind = "FUNCTIONPROTO"
          [] d.variant = "PointerType" ->
               /\ k = "POINTER"
               /\ d.clang_type.pointee.kind \notin {"VOID", "FUNCTIONPROTO"}
          [] d.variant = "RecordType" -> k = "RECORD"
          [] d.variant = "TypedefType" -> k = "TYPEDEF"
          [] d.variant = "VoidType" -> k = "VOID"
          [] OTHER -> TRUE

\* C8: no constructor called from parse_type fails its precondition
\* assertion: the only assertion parse_type can raise is its own final
\* one, and every node of a returned tree satisfies its precondition.
C8_PreconditionsHold ==
    /\ pc = "raised" => descriptor = Raise("AssertionError", "parse_type")
    /\ pc = "parsed"
         => \A p \in Paths(descriptor) : PreconditionHolds(NodeAt(descriptor, p))

\* a pointer to a void pointer: PointerType was built for the outer
\* pointer, and the inner one, whose pointee is void, for which PointerType
\* would fail, went to PrimitiveCTypesType
C8_Witness ==
    /\ pc = "parsed"
    /\ descriptor.variant = "PointerType"
    /\ descriptor.pointee.variant = "PrimitiveCTypesType"
    /\ descriptor.pointee.clang_type.pointee.kind = "VOID"

\* C9: rendering never changes a descriptor tree or a set it returned
\* earlier: the tree is the one the caller saw at an earlier call, the set
\* that call returned still has the value it had, and a later call with
\* the same node and surface returns an equal value.
C9_RenderingIsPure ==
    kept.op # "none"
      => /\ kept.tree = descriptor
         /\ kept.op = "used_ctypes"
              => kept.ref \in DOMAIN heap /\ heap[kept.ref] = kept.value
         /\ (result.op = kept.op /\ result.node = kept.node /\ result.api = kept.api)
              => result.value = kept.value

\* the caller holds the set a pointee returned, and has then asked the
\* PointerType above it, which added POINTER to the set it got from the
\* pointee
C9_Witness ==
    /\ kept.op = "used_ctypes"
    /\ result.op = "used_ctypes"
    /\ descriptor.variant = "PointerType"
    /\ kept.node = <<1>>
    /\ result.node = <<>>
    /\ kept.api = result.api
    /\ s_POINTER \in result.value
    /\ s_POINTER \notin kept.value
    /\ kept.value # {}

\* the identifiers of a rendered string: the maximal runs of word
\* characters that do not start with a digit
Identifiers(s) ==
    {SubSeq(s, i, j) : <<i, j>> \in
        {p \in (1..Len(s)) \X (1..Len(s)) :
            /\ p[1] <= p[2]
            /\ \A k \in p[1]..p[2] : s[k] \in WordChars
            /\ p[1] = 1 \/ s[p[1] - 1] \notin WordChars
            /\ p[2] = Len(s) \/ s[p[2] + 1] \notin WordChars
            /\ s[p[1]] \notin Digits}}

\* an identifier that names a ctypes symbol
IsCtypesSymbol(id) == StartsWith(id, s_c_) \/ id \in {s_POINTER, s_CFUNCTYPE}

\* the names under which the records and the project-local typedefs of a
\* tree are rendered, in a function pointer's signature as elsewhere
RECURSIVE LocalNames(_)
LocalNames(d) ==
    (IF \/ d.variant = "RecordType"
        \/ (d.variant = "TypedefType" /\ StartsWith(d._capi_name, s_Xr))
     THEN {d._py_name} ELSE {})
      \cup (IF d.variant = "TypedefType" THEN {}
            ELSE UNION {LocalNames(Children(d)[i]) : i \in 1..Len(Children(d))})

====
